---- MODULE Spec2Model ----
(***************************************************************************)
(* Multi-projectile incline simulation: the orchestrator of src/App.tsx    *)
(* (projectile list, environment, launch/pause/reset handlers, the         *)
(* animate tick) over the physics helpers of src/unnamed/part_000          *)
(* (utils/physics: getInitialState, calculatePhysics, checkCollision).     *)
(*                                                                         *)
(* Numbers.  The program computes in IEEE doubles; the model computes the  *)
(* same formulas exactly over a rational grid:                             *)
(*   time      t   in ticks of 1/TicksPerSec s   (t = 7 is 7/60 s)         *)
(*   gravity   g   in 1/GravScale m/s^2          (981 is 9.81)             *)
(*   sin, cos      in 1/TrigScale, from a table of Math.sin at 5 degree    *)
(*                 steps rounded to three decimals                         *)
(*   velocity      in 1/VelScale m/s                                       *)
(*   position      in 1/PosScale m                                         *)
(* With these units every product of calculatePhysics is an integer, so    *)
(* no rounding is introduced besides the one of the trigonometric table.   *)
(* On the inputs used here the doubles of the program order the same way:  *)
(* six additions of 1/60 give 0.09999999999999999, not more than 0.1, and  *)
(* Math.round(nextT * 60) is the tick count.                               *)
(*                                                                         *)
(* Specifications.  Spec drives the projectile the program is              *)
(* constructed with through every flight handler with the full inputs.     *)
(* ListSpec adds addProjectile, removeProjectile and setActiveId and       *)
(* drives several projectiles with smaller inputs.  An edit of the         *)
(* environment is one step together with the effect it triggers.           *)
(* PredictSpec runs the loop of predictTrajectory, one iteration a step,   *)
(* for an idle projectile under each environment and config of its inputs. *)
(***************************************************************************)
EXTENDS Integers, Sequences, FiniteSets, TLC

VARIABLES env, projectiles, activeId, projectIdCounter, prediction

vars == <<env, projectiles, activeId, projectIdCounter, prediction>>

---------------------------------------------------------------------------
(* Units *)

TicksPerSec == 60
GravScale == 100
TrigScale == 1000
VelScale == GravScale * TicksPerSec
PosScale == 2 * GravScale * TicksPerSec * TicksPerSec

(* Program constants *)

INCLINE_LENGTH == 100

(* Bounds of the model *)

MaxT == 7
MaxIdCounter == 2

\* Cap on elapsed time, in ticks, for the flights that are run to their end
FlightMaxT == 900

(* Inputs the handlers are driven with.  The first element of each set is  *)
(* the value the program is constructed with.                              *)

Angles == {30, 0}
Gravities == {981, 2000}
TimeScales == {1, 300}
V0s == {25, 10}
LaunchAngles == {45, 0}
StartPositions == {"bottom", "top"}

Updates ==
    {[v0 |-> v] : v \in V0s}
    \cup {[angleLaunch |-> a] : a \in LaunchAngles}
    \cup {[startPos |-> s] : s \in StartPositions}

\* Times, in ticks, at which the closed form is evaluated directly
PhysTimes == {0, 1, 6, 150, 300}

\* Sample distances along the incline and off it, in units of 25 mm: 6 m
\* and 5 m behind the foot, the foot, 50 m, 119 m and 121 m along; 1 m
\* below, on the surface, 25 mm, 50 mm and 75 mm above, 1 m above
SampleParas == {0 - 240, 0 - 200, 0, 2000, 4760, 4840}
SamplePerps == {0 - 40, 0, 1, 2, 3, 40}

\* Sample abscissas on the flat incline, in mm, around -5 m and 120 m
FlatXs == {0 - 5001, 0 - 5000, 0, 50000, 120000, 120001}

\* Inputs of the prediction: the ends of the sliders as well
PredictAngles == {30, 0, 80}
PredictGravities == {981, 2000, 100}
PredictV0s == {25, 10, 0, 60}
PredictLaunchAngles == {45, 0, 90, 0 - 90}

\* Incline angles at which vectors are decomposed, besides the current one
ProjectAngles == {0, 30, 45, 80}

\* Inputs of the flights that are run to their end
FlightAngles == {30, 0, 80}
FlightV0s == {25, 10, 60}

(* The smaller inputs of the specification with several projectiles *)

ListAngles == {30, 0}
ListGravities == {981}
ListTimeScales == {300, 600}
ListUpdates == {[startPos |-> s] : s \in StartPositions}

---------------------------------------------------------------------------
(* utils/physics *)

SinTable ==
    <<0, 87, 174, 259, 342, 423, 500, 574, 643, 707,
      766, 819, 866, 906, 940, 966, 985, 996, 1000>>

\* Math.sin(toRad(deg)) for deg a multiple of 5, in 1/TrigScale
Sin(deg) ==
    LET a == deg % 360
    IN  IF a <= 90 THEN SinTable[(a \div 5) + 1]
        ELSE IF a <= 180 THEN SinTable[((180 - a) \div 5) + 1]
        ELSE IF a <= 270 THEN 0 - SinTable[((a - 180) \div 5) + 1]
        ELSE 0 - SinTable[((360 - a) \div 5) + 1]

\* Math.cos(toRad(deg)) for deg a multiple of 5, in 1/TrigScale
Cos(deg) == Sin(deg + 90)

\* getInitialState with the launch angle taken from the horizontal, not
\* from the incline
getInitialState_FromHorizontal(pConfig, envConfig) ==
    LET theta == envConfig.angleIncline
        phi == pConfig.angleLaunch
        atTop == pConfig.startPos = "top"
        startX == IF atTop
                  THEN INCLINE_LENGTH * Cos(theta) * (PosScale \div TrigScale)
                  ELSE 0
        startY == IF atTop
                  THEN INCLINE_LENGTH * Sin(theta) * (PosScale \div TrigScale)
                  ELSE 0
    IN  [pos |-> [x |-> startX, y |-> startY],
         vel |-> [x |-> pConfig.v0 * Cos(phi) * (VelScale \div TrigScale),
                  y |-> pConfig.v0 * Sin(phi) * (VelScale \div TrigScale)]]

getInitialState(pConfig, envConfig) ==
    LET theta == envConfig.angleIncline
        phi == pConfig.angleLaunch
        totalAngle == theta + phi
        atTop == pConfig.startPos = "top"
        startX == IF atTop
                  THEN INCLINE_LENGTH * Cos(theta) * (PosScale \div TrigScale)
                  ELSE 0
        startY == IF atTop
                  THEN INCLINE_LENGTH * Sin(theta) * (PosScale \div TrigScale)
                  ELSE 0
    IN  [pos |-> [x |-> startX, y |-> startY],
         vel |-> [x |-> pConfig.v0 * Cos(totalAngle) * (VelScale \div TrigScale),
                  y |-> pConfig.v0 * Sin(totalAngle) * (VelScale \div TrigScale)]]

\* v * t in position units: (v / VelScale) * (t / TicksPerSec) * PosScale
VelTimesT(v, t) == v * t * (PosScale \div (VelScale * TicksPerSec))

\* HalfGTT without the factor 0.5
HalfGTT_NoHalf(g, t) ==
    g * t * t * (PosScale \div (GravScale * TicksPerSec * TicksPerSec))

\* 0.5 * g * t * t in position units
HalfGTT(g, t) ==
    g * t * t * (PosScale \div (2 * GravScale * TicksPerSec * TicksPerSec))

\* g * t in velocity units
GT(g, t) == g * t * (VelScale \div (GravScale * TicksPerSec))

calculatePhysics(t, e, initialPos, initialVel) ==
    LET x == initialPos.x + VelTimesT(initialVel.x, t)
        y == initialPos.y + VelTimesT(initialVel.y, t) - HalfGTT(e.gravity, t)
        vx == initialVel.x
        vy == initialVel.y - GT(e.gravity, t)
    IN  [position |-> [x |-> x, y |-> y],
         velocity |-> [x |-> vx, y |-> vy]]

\* (X * a + Y * b) / (PosScale * TrigScale) in 1/TrigScale m, as the pair
\* <<floor, remainder>>: the exact value is floor + remainder / PosScale.
\* Whole metres and fractions are multiplied separately to stay within
\* 32-bit integers.
Dot(pos, a, b) ==
    LET whole == (pos.x \div PosScale) * a + (pos.y \div PosScale) * b
        frac == (pos.x % PosScale) * a + (pos.y % PosScale) * b
    IN  <<whole + (frac \div PosScale), frac % PosScale>>

\* DistLeq with < in place of <=
DistLeq_Strict(d, k) == d[1] < k

\* d <= k and d >= k for d a pair of Dot and k in 1/TrigScale m
DistLeq(d, k) == d[1] < k \/ (d[1] = k /\ d[2] = 0)
DistGeq(d, k) == d[1] >= k

checkCollision(pos, inclineAngleDeg) ==
    LET theta == inclineAngleDeg
        perpDist == Dot(pos, 0 - Sin(theta), Cos(theta))
        paraDist == Dot(pos, Cos(theta), Sin(theta))
        isBelow == DistLeq(perpDist, 50)
        isOnRamp == DistGeq(paraDist, (0 - 5) * TrigScale)
                    /\ DistLeq(paraDist, (INCLINE_LENGTH + 20) * TrigScale)
    IN  isBelow /\ isOnRamp

\* dt = 0.1 s and maxTime = 10 s of predictTrajectory, in ticks
predictDt == TicksPerSec \div 10

\* maxTime of 20 s
predictMaxTime_Double == 20 * TicksPerSec

predictMaxTime == 10 * TicksPerSec

\* the grace of predictTrajectory with >= in place of >
predictPastGrace_Inclusive(t) == 10 * t >= TicksPerSec

\* t > 0.1 in predictTrajectory
predictPastGrace(t) == 10 * t > TicksPerSec

\* projectToIncline with uPerp = (sin, cos): the sign of the normal lost
projectToIncline_UnsignedNormal(vec, inclineAngleDeg) ==
    LET theta == inclineAngleDeg
        uPara == [x |-> Cos(theta), y |-> Sin(theta)]
        uPerp == [x |-> Sin(theta), y |-> Cos(theta)]
        vParaMag == vec.x * uPara.x + vec.y * uPara.y
        vPerpMag == vec.x * uPerp.x + vec.y * uPerp.y
    IN  [parallel |-> [x |-> uPara.x * vParaMag, y |-> uPara.y * vParaMag,
                       mag |-> vParaMag],
         perpendicular |-> [x |-> uPerp.x * vPerpMag, y |-> uPerp.y * vPerpMag,
                            mag |-> vPerpMag]]

\* vec in any unit u; mag in u / TrigScale, x and y in u / TrigScale^2
projectToIncline(vec, inclineAngleDeg) ==
    LET theta == inclineAngleDeg
        uPara == [x |-> Cos(theta), y |-> Sin(theta)]
        uPerp == [x |-> 0 - Sin(theta), y |-> Cos(theta)]
        vParaMag == vec.x * uPara.x + vec.y * uPara.y
        vPerpMag == vec.x * uPerp.x + vec.y * uPerp.y
    IN  [parallel |-> [x |-> uPara.x * vParaMag, y |-> uPara.y * vParaMag,
                       mag |-> vParaMag],
         perpendicular |-> [x |-> uPerp.x * vPerpMag, y |-> uPerp.y * vPerpMag,
                            mag |-> vPerpMag]]

---------------------------------------------------------------------------
(* App *)

ResetState(init, playing) ==
    [t |-> 0,
     isPlaying |-> playing,
     isFinished |-> FALSE,
     position |-> init.pos,
     startPosition |-> init.pos,
     velocity |-> init.vel,
     path |-> <<init.pos>>]

\* { ...config, ...updates }
Merge(config, updates) ==
    [k \in DOMAIN config |->
        IF k \in DOMAIN updates THEN updates[k] ELSE config[k]]

EmptyUpdate == [k \in {} |-> 0]

\* name and color of the config are display data and are left out
createProjectile(id, partialConfig, e) ==
    LET config == Merge([v0 |-> 25, angleLaunch |-> 45, startPos |-> "bottom"],
                        partialConfig)
        init == getInitialState(config, e)
    IN  [id |-> id, config |-> config, state |-> ResetState(init, FALSE)]

Ids == {projectiles[i].id : i \in 1..Len(projectiles)}

\* the for loop of predictTrajectory before its first iteration: the loop
\* variable t, the points pushed, and whether the function has returned
NoPrediction == [t |-> 0, points |-> <<>>, done |-> FALSE]

Init ==
    /\ env = [angleIncline |-> 30, gravity |-> 981, timeScale |-> 1]
    /\ activeId = 1
    /\ projectIdCounter = 1
    /\ prediction = NoPrediction
    /\ projectiles = <<createProjectile(1, EmptyUpdate, env)>>

addProjectile ==
    /\ projectIdCounter < MaxIdCounter
    /\ LET nextId == projectIdCounter + 1
           newP == createProjectile(nextId, EmptyUpdate, env)
       IN  /\ projectIdCounter' = projectIdCounter + 1
           /\ projectiles' = Append(projectiles, newP)
           /\ activeId' = nextId
    /\ UNCHANGED <<env, prediction>>

removeProjectile(id) ==
    /\ Len(projectiles) > 1
    /\ projectiles' = SelectSeq(projectiles, LAMBDA p : p.id # id)
    /\ activeId' = IF activeId = id THEN projectiles[1].id ELSE activeId
    /\ UNCHANGED <<env, projectIdCounter, prediction>>

setActiveId(id) ==
    /\ activeId' = id
    /\ UNCHANGED <<env, projectiles, projectIdCounter, prediction>>

\* updateConfigOf that replaces the config and leaves the state alone
updateConfigOf_KeepsState(p, id, updates) ==
    IF p.id # id THEN p
    ELSE [p EXCEPT !.config = Merge(p.config, updates)]

\* updateConfigOf that resets only a projectile that is not flying
updateConfigOf_SparesFlying(p, id, updates) ==
    IF p.id # id THEN p
    ELSE LET newConfig == Merge(p.config, updates)
             init == getInitialState(newConfig, env)
         IN  IF p.state.isPlaying
             THEN [p EXCEPT !.config = newConfig]
             ELSE [p EXCEPT !.config = newConfig,
                            !.state = ResetState(init, FALSE)]

updateConfigOf(p, id, updates) ==
    IF p.id # id THEN p
    ELSE LET newConfig == Merge(p.config, updates)
             init == getInitialState(newConfig, env)
         IN  [p EXCEPT !.config = newConfig,
                       !.state = ResetState(init, FALSE)]

updateProjectileConfig(id, updates) ==
    /\ projectiles' = [i \in DOMAIN projectiles |->
                          updateConfigOf(projectiles[i], id, updates)]
    /\ UNCHANGED <<env, activeId, projectIdCounter, prediction>>

\* envEffectOf resetting the whole state, flags and time included
envEffectOf_FullReset(p, e) ==
    IF p.state.isPlaying THEN p
    ELSE [p EXCEPT !.state = ResetState(getInitialState(p.config, e), FALSE)]

\* launchOf with a replay that keeps the landing velocity
launchOf_StaleVelocity(p, id) ==
    IF p.id # id THEN p
    ELSE IF p.state.isPlaying
         THEN [p EXCEPT !.state.isPlaying = FALSE]
         ELSE IF p.state.isFinished
              THEN LET init == getInitialState(p.config, env)
                   IN  [p EXCEPT !.state.t = 0,
                                 !.state.isPlaying = TRUE,
                                 !.state.isFinished = FALSE,
                                 !.state.position = init.pos,
                                 !.state.startPosition = init.pos,
                                 !.state.path = <<init.pos>>]
              ELSE [p EXCEPT !.state.isPlaying = TRUE]

\* envEffectOf that leaves the path as it was
envEffectOf_KeepsPath(p, e) ==
    IF p.state.isPlaying THEN p
    ELSE LET init == getInitialState(p.config, e)
         IN  [p EXCEPT !.state.position = init.pos,
                       !.state.startPosition = init.pos,
                       !.state.velocity = init.vel]

\* the effect on [env.angleIncline, env.gravity], run with the new env e
envEffectOf(p, e) ==
    IF p.state.isPlaying THEN p
    ELSE LET init == getInitialState(p.config, e)
         IN  [p EXCEPT !.state.position = init.pos,
                       !.state.startPosition = init.pos,
                       !.state.velocity = init.vel,
                       !.state.path = <<init.pos>>]

\* setEnv(prev => ({...prev, [field]: v})) followed by the effects
\* that the change of the dependencies triggers
setEnv(field, v) ==
    /\ env' = [env EXCEPT ![field] = v]
    /\ IF env'.angleIncline # env.angleIncline \/ env'.gravity # env.gravity
       THEN projectiles' = [i \in DOMAIN projectiles |->
                               envEffectOf(projectiles[i], env')]
       ELSE UNCHANGED projectiles
    /\ UNCHANGED <<activeId, projectIdCounter, prediction>>

\* launchOf with a replay that forgets to clear isFinished
launchOf_KeepsFinished(p, id) ==
    IF p.id # id THEN p
    ELSE IF p.state.isPlaying
         THEN [p EXCEPT !.state.isPlaying = FALSE]
         ELSE [p EXCEPT !.state.isPlaying = TRUE]

\* launchOf restarting every projectile that is not playing
launchOf_AlwaysRestarts(p, id) ==
    IF p.id # id THEN p
    ELSE IF p.state.isPlaying
         THEN [p EXCEPT !.state.isPlaying = FALSE]
         ELSE [p EXCEPT
                 !.state = ResetState(getInitialState(p.config, env), TRUE)]

\* launchOf with a pause that rewinds the clock
launchOf_PauseRewinds(p, id) ==
    IF p.id # id THEN p
    ELSE IF p.state.isPlaying
         THEN [p EXCEPT !.state.isPlaying = FALSE, !.state.t = 0]
         ELSE IF p.state.isFinished
              THEN [p EXCEPT
                      !.state = ResetState(getInitialState(p.config, env), TRUE)]
              ELSE [p EXCEPT !.state.isPlaying = TRUE]

launchOf(p, id) ==
    IF p.id # id THEN p
    ELSE IF p.state.isPlaying
         THEN [p EXCEPT !.state.isPlaying = FALSE]
         ELSE IF p.state.isFinished
              THEN [p EXCEPT
                      !.state = ResetState(getInitialState(p.config, env), TRUE)]
              ELSE [p EXCEPT !.state.isPlaying = TRUE]

launchProjectile(id) ==
    /\ projectiles' = [i \in DOMAIN projectiles |-> launchOf(projectiles[i], id)]
    /\ UNCHANGED <<env, activeId, projectIdCounter, prediction>>

launchAll ==
    /\ projectiles' = [i \in DOMAIN projectiles |->
           [projectiles[i] EXCEPT
              !.state = ResetState(getInitialState(projectiles[i].config, env),
                                   TRUE)]]
    /\ UNCHANGED <<env, activeId, projectIdCounter, prediction>>

resetAll ==
    /\ projectiles' = [i \in DOMAIN projectiles |->
           [projectiles[i] EXCEPT
              !.state = ResetState(getInitialState(projectiles[i].config, env),
                                   FALSE)]]
    /\ UNCHANGED <<env, activeId, projectIdCounter, prediction>>

\* Math.round(num / den): floor(num / den + 1/2)
Round(num, den) == (2 * num + den) \div (2 * den)

\* NextT with the nominal tick, the time scale forgotten
NextT_NoTimeScale(p, e) == p.state.t + 1

\* nextT = p.state.t + (1/60) * env.timeScale, in ticks
NextT(p, e) == p.state.t + e.timeScale

\* Tentative from the start position of the current environment in place
\* of the stored one
Tentative_ResolvedStart(p, e) ==
    calculatePhysics(NextT(p, e), e, getInitialState(p.config, e).pos,
                     getInitialState(p.config, e).vel)

\* Tentative from the stored velocity in place of the initial velocity
Tentative_StoredVelocity(p, e) ==
    calculatePhysics(NextT(p, e), e, p.state.startPosition, p.state.velocity)

\* calculatePhysics(nextT, env, p.state.startPosition, init.vel)
Tentative(p, e) ==
    calculatePhysics(NextT(p, e), e, p.state.startPosition,
                     getInitialState(p.config, e).vel)

\* PastGrace with >= in place of >
PastGrace_Inclusive(nextT) == 10 * nextT >= TicksPerSec

\* nextT > 0.1
PastGrace(nextT) == 10 * nextT > TicksPerSec

\* OutOfBounds without the lower bound on y
OutOfBounds_XOnly(pos) == pos.x > 250 * PosScale

\* physics.position.y < -30 || physics.position.x > 250
OutOfBounds(pos) == pos.y < (0 - 30) * PosScale \/ pos.x > 250 * PosScale

\* shouldAddPoint sampling every tick
shouldAddPoint_Always(nextT) == TRUE

\* Math.round(nextT * 60) % 5 === 0
shouldAddPoint(nextT) == Round(nextT * 60, TicksPerSec) % 5 = 0

\* animateOf with the bounds check ahead of the collision check
animateOf_BoundsFirst(p, e) ==
    IF ~p.state.isPlaying \/ p.state.isFinished THEN p
    ELSE LET nextT == NextT(p, e)
             physics == Tentative(p, e)
             hasHit == checkCollision(physics.position, e.angleIncline)
         IN  IF OutOfBounds(physics.position)
             THEN [p EXCEPT !.state.isPlaying = FALSE,
                            !.state.isFinished = TRUE]
             ELSE IF hasHit /\ PastGrace(nextT)
             THEN [p EXCEPT !.state.t = nextT,
                            !.state.position = physics.position,
                            !.state.velocity = [x |-> 0, y |-> 0],
                            !.state.isPlaying = FALSE,
                            !.state.isFinished = TRUE]
             ELSE [p EXCEPT !.state.t = nextT,
                            !.state.position = physics.position,
                            !.state.velocity = physics.velocity,
                            !.state.path =
                                IF shouldAddPoint(nextT)
                                THEN Append(p.state.path, physics.position)
                                ELSE p.state.path]

\* the body of prev.map in animate, for one projectile
animateOf(p, e) ==
    IF ~p.state.isPlaying \/ p.state.isFinished THEN p
    ELSE LET nextT == NextT(p, e)
             physics == Tentative(p, e)
             hasHit == checkCollision(physics.position, e.angleIncline)
         IN  IF hasHit /\ PastGrace(nextT)
             THEN [p EXCEPT !.state.t = nextT,
                            !.state.position = physics.position,
                            !.state.velocity = [x |-> 0, y |-> 0],
                            !.state.isPlaying = FALSE,
                            !.state.isFinished = TRUE]
             ELSE IF OutOfBounds(physics.position)
             THEN [p EXCEPT !.state.isPlaying = FALSE,
                            !.state.isFinished = TRUE]
             ELSE [p EXCEPT !.state.t = nextT,
                            !.state.position = physics.position,
                            !.state.velocity = physics.velocity,
                            !.state.path =
                                IF shouldAddPoint(nextT)
                                THEN Append(p.state.path, physics.position)
                                ELSE p.state.path]

\* animate advancing only the first flying projectile of the list
animate_OnlyFirst(maxT) ==
    /\ \A i \in 1..Len(projectiles) :
          projectiles[i].state.isPlaying => projectiles[i].state.t < maxT
    /\ projectiles' = [i \in DOMAIN projectiles |->
           IF \E j \in 1..(i - 1) : projectiles[j].state.isPlaying
           THEN projectiles[i]
           ELSE animateOf(projectiles[i], env)]
    /\ UNCHANGED <<env, activeId, projectIdCounter, prediction>>

\* elapsed time is the unbounded part of the state: a tick is taken
\* while every flying projectile is below the bound maxT
animate(maxT) ==
    /\ \A i \in 1..Len(projectiles) :
          projectiles[i].state.isPlaying => projectiles[i].state.t < maxT
    /\ projectiles' = [i \in DOMAIN projectiles |-> animateOf(projectiles[i], env)]
    /\ UNCHANGED <<env, activeId, projectIdCounter, prediction>>

\* the handlers the panel offers for the active projectile and the
\* environment, and the tick
FlightNext(updates, angles, gravities, timeScales, maxT) ==
    \/ \E u \in updates : activeId \in Ids /\ updateProjectileConfig(activeId, u)
    \/ \E a \in angles : setEnv("angleIncline", a)
    \/ \E g \in gravities : setEnv("gravity", g)
    \/ \E s \in timeScales : setEnv("timeScale", s)
    \/ launchProjectile(activeId)
    \/ launchAll
    \/ resetAll
    \/ animate(maxT)

\* one projectile, the full inputs
Next == FlightNext(Updates, Angles, Gravities, TimeScales, MaxT)

Spec == Init /\ [][Next]_vars

\* every handler, several projectiles, the smaller inputs
ListNext ==
    \/ addProjectile
    \/ (activeId \in Ids /\ removeProjectile(activeId))
    \/ \E id \in Ids : setActiveId(id)
    \/ FlightNext(ListUpdates, ListAngles, ListGravities, ListTimeScales, MaxT)

\* the program after 300 was typed into the time-scale box: every flight
\* ends or reaches the bound within one tick
ListInit ==
    /\ env = [angleIncline |-> 30, gravity |-> 981, timeScale |-> 300]
    /\ activeId = 1
    /\ projectIdCounter = 1
    /\ prediction = NoPrediction
    /\ projectiles = <<createProjectile(1, EmptyUpdate, env)>>

ListSpec == ListInit /\ [][ListNext]_vars

\* a flight left to itself: the launch of the idle projectile, then ticks
\* only, with no pause, edit or relaunch
FlightOnlyNext ==
    \/ \E i \in 1..Len(projectiles) :
          /\ projectiles[i].id = activeId
          /\ ~projectiles[i].state.isPlaying
          /\ ~projectiles[i].state.isFinished
          /\ launchProjectile(activeId)
    \/ animate(FlightMaxT)

\* an idle projectile under any environment and config of the inputs
FlightInit ==
    /\ \E a \in FlightAngles, g \in Gravities, s \in TimeScales :
          env = [angleIncline |-> a, gravity |-> g, timeScale |-> s]
    /\ \E v \in FlightV0s, b \in PredictLaunchAngles, s \in StartPositions :
          projectiles = <<createProjectile(1,
                             [v0 |-> v, angleLaunch |-> b, startPos |-> s], env)>>
    /\ activeId = 1
    /\ projectIdCounter = 1
    /\ prediction = NoPrediction

FlightSpec == FlightInit /\ [][FlightOnlyNext]_vars

\* requestAnimationFrame keeps calling animate: an enabled tick is taken
FlightFairSpec == FlightSpec /\ WF_vars(FlightOnlyNext)

\* one iteration of the for loop of predictTrajectory(pConfig, e): push the
\* position at t, break on a stop condition, else t += dt
predictIterate(pConfig, e) ==
    /\ ~prediction.done
    /\ prediction.t <= predictMaxTime
    /\ LET init == getInitialState(pConfig, e)
           res == calculatePhysics(prediction.t, e, init.pos, init.vel)
           break == \/ (checkCollision(res.position, e.angleIncline)
                           /\ predictPastGrace(prediction.t))
                    \/ res.position.y < (0 - 10) * PosScale
       IN  prediction' = [t |-> IF break THEN prediction.t
                                ELSE prediction.t + predictDt,
                          points |-> Append(prediction.points, res.position),
                          done |-> break]
    /\ UNCHANGED <<env, projectiles, activeId, projectIdCounter>>

\* the loop condition t <= maxTime fails: return points
predictReturn ==
    /\ ~prediction.done
    /\ prediction.t > predictMaxTime
    /\ prediction' = [prediction EXCEPT !.done = TRUE]
    /\ UNCHANGED <<env, projectiles, activeId, projectIdCounter>>

\* the canvas draws the prediction of the selected projectile while it is
\* neither playing nor finished
drawPrediction ==
    \E i \in 1..Len(projectiles) :
        /\ projectiles[i].id = activeId
        /\ ~projectiles[i].state.isPlaying
        /\ ~projectiles[i].state.isFinished
        /\ predictIterate(projectiles[i].config, env)

PredictNext == drawPrediction \/ predictReturn

\* an idle projectile under any environment and config of the inputs
PredictInit ==
    /\ \E a \in PredictAngles, g \in PredictGravities :
          env = [angleIncline |-> a, gravity |-> g, timeScale |-> 1]
    /\ \E v \in PredictV0s, b \in PredictLaunchAngles, s \in StartPositions :
          projectiles = <<createProjectile(1,
                             [v0 |-> v, angleLaunch |-> b, startPos |-> s], env)>>
    /\ activeId = 1
    /\ projectIdCounter = 1
    /\ prediction = NoPrediction

PredictSpec == PredictInit /\ [][PredictNext]_vars

\* the loop is not starved: an enabled iteration is taken
PredictFairSpec == PredictSpec /\ WF_vars(PredictNext)

---------------------------------------------------------------------------
(* Vocabulary of the properties *)

Idx == 1..Len(projectiles)

Flight(p) ==
    IF p.state.isFinished THEN "Finished"
    ELSE IF p.state.isPlaying THEN "Playing" ELSE "Idle"

ZeroVec == [x |-> 0, y |-> 0]

IsPrefix(a, b) == Len(a) <= Len(b) /\ SubSeq(b, 1, Len(a)) = a

\* the step is a tick
TickStep == animate(MaxT)

\* the step is an edit of the incline angle or of gravity
EnvEditStep ==
    \/ \E a \in Angles : setEnv("angleIncline", a)
    \/ \E g \in Gravities : setEnv("gravity", g)

\* the step is an edit of the time scale
TimeScaleStep == \E s \in TimeScales : setEnv("timeScale", s)

\* the step is a config edit of projectile id
UpdateStep(id) == \E u \in Updates : updateProjectileConfig(id, u)

\* the state a reset or a launch writes, field by field
FreshState(config, e, playing) ==
    [t |-> 0,
     isPlaying |-> playing,
     isFinished |-> FALSE,
     position |-> getInitialState(config, e).pos,
     startPosition |-> getInitialState(config, e).pos,
     velocity |-> getInitialState(config, e).vel,
     path |-> <<getInitialState(config, e).pos>>]

---------------------------------------------------------------------------
(* C1 *)

\* C1: in every reachable state no projectile has isPlaying and isFinished
\* both true.
C1_NeverPlayingAndFinished ==
    \A i \in Idx :
        ~(projectiles[i].state.isPlaying /\ projectiles[i].state.isFinished)

\* a landed projectile next to a flying one
C1_Witness ==
    \E i, j \in Idx :
        /\ projectiles[i].state.isFinished
        /\ ~projectiles[i].state.isPlaying
        /\ projectiles[j].state.isPlaying

---------------------------------------------------------------------------
(* C2 *)

\* C2: launchProjectile on a Finished projectile, and launchAll on any
\* projectile, yield t = 0, isPlaying, not isFinished, path = [start] and
\* position, startPosition and velocity of getInitialState(config, env);
\* nothing is kept from before the landing or the out-of-bounds exit.
C2_RelaunchResets ==
    [][\A i \in Idx :
          LET p == projectiles[i]
              q == projectiles'[i]
              init == getInitialState(p.config, env)
          IN  ((p.state.isFinished /\ launchProjectile(p.id)) \/ launchAll)
                  => /\ q.config = p.config
                     /\ q.state.t = 0
                     /\ q.state.isPlaying
                     /\ ~q.state.isFinished
                     /\ q.state.path = <<init.pos>>
                     /\ q.state.position = init.pos
                     /\ q.state.startPosition = init.pos
                     /\ q.state.velocity = init.vel
                     /\ q.state.velocity # ZeroVec]_vars

\* a projectile flying again from its start, at the incline angle the
\* environment was edited to
C2_Witness ==
    \E i \in Idx :
        /\ projectiles[i].state.isPlaying
        /\ projectiles[i].state.t = 0
        /\ projectiles[i].config.startPos = "top"
        /\ env.angleIncline = 0
        /\ projectiles[i].state.path = <<projectiles[i].state.startPosition>>
        /\ projectiles[i].state.startPosition =
               getInitialState(projectiles[i].config, env).pos

---------------------------------------------------------------------------
(* C3 *)

\* C3: once isFinished is true, the SimulationState of the projectile stays
\* unchanged through every later tick and every later edit of the incline
\* angle or of gravity.
C3_FinishedFrozen ==
    [][\A i \in Idx :
          (projectiles[i].state.isFinished /\ (TickStep \/ EnvEditStep))
              => projectiles'[i].state = projectiles[i].state]_vars

---------------------------------------------------------------------------
(* C4 *)

\* C4 as claimed: a Finished projectile leaves Finished only through
\* launchProjectile on it or launchAll.
C4_LeavesFinishedOnlyByRelaunch ==
    [][\A i \in Idx :
          (projectiles[i].state.isFinished /\ ~projectiles'[i].state.isFinished)
              => (launchProjectile(projectiles[i].id) \/ launchAll)]_vars

\* C4 amended: the flight state moves only Idle -> Playing (launchProjectile,
\* launchAll), Playing -> Idle (pause, updateProjectileConfig, resetAll),
\* Playing -> Finished (tick), Finished -> Playing (launchProjectile on it,
\* launchAll) and Finished -> Idle (updateProjectileConfig on it, resetAll);
\* every move out of Finished recomputes the initial state and clears path
\* and time; ticks and environment edits never move a projectile out of
\* Finished.
C4_Lifecycle ==
    [][\A i \in Idx :
          LET p == projectiles[i]
              q == projectiles'[i]
              a == Flight(p)
              b == Flight(q)
          IN  /\ (a = "Idle" /\ b = "Playing")
                    => (launchProjectile(p.id) \/ launchAll)
              /\ (a = "Playing" /\ b = "Idle")
                    => (launchProjectile(p.id) \/ UpdateStep(p.id) \/ resetAll)
              /\ (a = "Playing" /\ b = "Finished") => TickStep
              /\ ~(a = "Idle" /\ b = "Finished")
              /\ (a = "Finished" /\ b = "Playing")
                    => /\ launchProjectile(p.id) \/ launchAll
                       /\ q.state = FreshState(q.config, env, TRUE)
              /\ (a = "Finished" /\ b = "Idle")
                    => /\ UpdateStep(p.id) \/ resetAll
                       /\ q.state = FreshState(q.config, env, FALSE)
              /\ (a = "Finished" /\ (TickStep \/ EnvEditStep \/ TimeScaleStep))
                    => b = "Finished"]_vars

\* a Finished projectile that a tick froze away from its start
C4_Witness ==
    \E i \in Idx :
        /\ Flight(projectiles[i]) = "Finished"
        /\ projectiles[i].state.position # projectiles[i].state.startPosition
        /\ Len(projectiles[i].state.path) > 1

---------------------------------------------------------------------------
(* C5 *)

\* the start position the resolver gives for a start choice at an incline
\* angle
StartOf(startPos, angle) ==
    IF startPos = "top"
    THEN [x |-> INCLINE_LENGTH * Cos(angle) * (PosScale \div TrigScale),
          y |-> INCLINE_LENGTH * Sin(angle) * (PosScale \div TrigScale)]
    ELSE ZeroVec

\* the step resets or relaunches projectile p: a config edit, resetAll,
\* launchAll, a launch of a Finished projectile, or the environment effect
\* on a projectile that is not playing
ResetStep(p) ==
    \/ UpdateStep(p.id)
    \/ resetAll
    \/ launchAll
    \/ (p.state.isFinished /\ launchProjectile(p.id))
    \/ (~p.state.isPlaying /\ EnvEditStep)

---------------------------------------------------------------------------
(* C6 *)

\* C6 as claimed: launchProjectile on a projectile that is not playing and
\* not finished makes it Playing with t = 0 and position, startPosition and
\* velocity of getInitialState(config, env), also after a pause.
C6_LaunchStartsFromInitial ==
    [][\A i \in Idx :
          LET p == projectiles[i]
              q == projectiles'[i]
              init == getInitialState(p.config, env)
          IN  (~p.state.isPlaying /\ ~p.state.isFinished
                  /\ launchProjectile(p.id))
                  => /\ q.state.isPlaying
                     /\ q.state.t = 0
                     /\ q.state.position = init.pos
                     /\ q.state.startPosition = init.pos
                     /\ q.state.velocity = init.vel]_vars

\* C6 amended: launchProjectile on a projectile that is not playing and not
\* finished makes it Playing and changes nothing else: a projectile still
\* in its reset state starts from t = 0 at the configured initial condition,
\* a paused one resumes from its paused t, position and velocity.
C6_LaunchOnlySetsPlaying ==
    [][\A i \in Idx :
          LET p == projectiles[i]
              q == projectiles'[i]
          IN  (~p.state.isPlaying /\ ~p.state.isFinished
                  /\ launchProjectile(p.id))
                  => /\ q.state.isPlaying
                     /\ ~q.state.isFinished
                     /\ q.config = p.config
                     /\ q.state.t = p.state.t
                     /\ q.state.position = p.state.position
                     /\ q.state.startPosition = p.state.startPosition
                     /\ q.state.velocity = p.state.velocity
                     /\ q.state.path = p.state.path
                     /\ (p.state = FreshState(p.config, env, FALSE)
                            => q.state = FreshState(p.config, env, TRUE))]_vars

\* a projectile resumed after a pause during which a gravity or angle edit
\* moved it back to its start: it flies at t > 0 from the start position
C6_Witness ==
    \E i \in Idx :
        /\ projectiles[i].state.isPlaying
        /\ projectiles[i].state.t > 0
        /\ projectiles[i].state.position = projectiles[i].state.startPosition
        /\ Len(projectiles[i].state.path) = 1

---------------------------------------------------------------------------
(* C7 - C10: the tick *)

\* the projectile is ticked: playing and not finished
Ticked(p) == p.state.isPlaying /\ ~p.state.isFinished

\* tentative time and position of a tick of p, from the fields of p
TickT(p) == p.state.t + env.timeScale

TickP(p) ==
    calculatePhysics(TickT(p), env, p.state.startPosition,
                     getInitialState(p.config, env).vel).position

\* the landing condition: a hit, and nextT > 0.1 (10 * ticks > 60)
Lands(p) ==
    checkCollision(TickP(p), env.angleIncline) /\ 10 * TickT(p) > TicksPerSec

\* C7: on a tick of a Playing projectile, a hit of the tentative position P
\* with nextT > 0.1 makes it Finished with position P, velocity (0,0) and
\* t = nextT; with nextT <= 0.1 a hit never ends the flight as a landing.
C7_Landing ==
    [][\A i \in Idx :
          LET p == projectiles[i]
              q == projectiles'[i]
          IN  (Ticked(p) /\ TickStep)
                  => /\ Lands(p)
                        => /\ ~q.state.isPlaying
                           /\ q.state.isFinished
                           /\ q.state.position = TickP(p)
                           /\ q.state.velocity = ZeroVec
                           /\ q.state.t = TickT(p)
                     /\ (10 * TickT(p) <= TicksPerSec
                            /\ checkCollision(TickP(p), env.angleIncline))
                        => /\ q.state.velocity # ZeroVec
                           /\ q.state.isFinished
                                 => /\ q.state.t = p.state.t
                                    /\ q.state.position = p.state.position]_vars

\* a projectile launched along the incline: its ticks 1..6 hit the surface
\* within the grace period, the tick to 7/60 s lands it
C7_Witness ==
    \E i \in Idx :
        /\ projectiles[i].state.isFinished
        /\ projectiles[i].state.velocity = ZeroVec
        /\ projectiles[i].state.t = 7
        /\ projectiles[i].config.angleLaunch = 0
        /\ Len(projectiles[i].state.path) = 2

\* C8: on a tick of a Playing projectile whose landing condition fails and
\* whose tentative position has y < -30 or x > 250, the projectile becomes
\* Finished with t, position, velocity and path as before the tick; when the
\* landing condition holds too, the landing (zero velocity) is taken.
C8_OutOfBounds ==
    [][\A i \in Idx :
          LET p == projectiles[i]
              q == projectiles'[i]
              out == TickP(p).y < (0 - 30) * PosScale
                         \/ TickP(p).x > 250 * PosScale
          IN  (Ticked(p) /\ TickStep /\ out)
                  => /\ ~q.state.isPlaying
                     /\ q.state.isFinished
                     /\ q.state.startPosition = p.state.startPosition
                     /\ q.state.path = p.state.path
                     /\ IF Lands(p)
                        THEN /\ q.state.velocity = ZeroVec
                             /\ q.state.position = TickP(p)
                             /\ q.state.t = TickT(p)
                        ELSE /\ q.state.velocity = p.state.velocity
                             /\ q.state.velocity # ZeroVec
                             /\ q.state.position = p.state.position
                             /\ q.state.t = p.state.t]_vars

\* a projectile that left the bounds on its first tick: Finished, with the
\* time, position and velocity of its launch
C8_Witness ==
    \E i \in Idx :
        /\ projectiles[i].state.isFinished
        /\ projectiles[i].state.t = 0
        /\ projectiles[i].state.velocity # ZeroVec
        /\ projectiles[i].state.position = projectiles[i].state.startPosition

\* C9: a tick changes a path only by appending the committed position, and
\* only when it keeps the projectile Playing and round(nextT * 60) is a
\* multiple of 5; every other tick leaves the path unchanged; ticks, pauses,
\* resumes and time-scale edits keep every earlier path a prefix of the
\* later one.
C9_PathAppendOnly ==
    [][\A i \in Idx :
          LET p == projectiles[i]
              q == projectiles'[i]
              sampled == ((2 * TickT(p) * 60 + TicksPerSec)
                             \div (2 * TicksPerSec)) % 5 = 0
          IN  /\ TickStep
                    => IF Ticked(p) /\ q.state.isPlaying /\ sampled
                       THEN /\ q.state.path
                                  = Append(p.state.path, q.state.position)
                            /\ q.state.position = TickP(p)
                       ELSE q.state.path = p.state.path
              /\ (TickStep \/ TimeScaleStep
                     \/ (~p.state.isFinished /\ launchProjectile(p.id)))
                    => IsPrefix(p.state.path, q.state.path)]_vars

\* a flying projectile whose tick to 5/60 s was sampled and whose tick to
\* 6/60 s was not
C9_Witness ==
    \E i \in Idx :
        /\ projectiles[i].state.isPlaying
        /\ projectiles[i].state.t = 6
        /\ Len(projectiles[i].state.path) = 2
        /\ projectiles[i].state.path[2] # projectiles[i].state.position

\* C10: a tick computes nextT = t + (1/60) * timeScale; every tick that
\* keeps the projectile Playing (and the landing tick) sets t to nextT, and
\* across ticks, pauses, resumes and time-scale edits t never decreases.
C10_TimeAdvances ==
    [][\A i \in Idx :
          LET p == projectiles[i]
              q == projectiles'[i]
          IN  /\ (Ticked(p) /\ TickStep /\ q.state.isPlaying)
                    => /\ q.state.t = p.state.t + env.timeScale
                       /\ q.state.t > p.state.t
              /\ (Ticked(p) /\ TickStep /\ ~q.state.isPlaying)
                    => q.state.t \in {p.state.t, p.state.t + env.timeScale}
              /\ (TickStep \/ TimeScaleStep
                     \/ (~p.state.isFinished /\ launchProjectile(p.id)))
                    => q.state.t >= p.state.t]_vars

\* a projectile still flying after ticks at time scale 1, a pause or not,
\* and a tick at time scale 300
C10_Witness ==
    \E i \in Idx :
        /\ projectiles[i].state.isPlaying
        /\ projectiles[i].state.t = 302
        /\ env.timeScale = 1

---------------------------------------------------------------------------
(* C11 *)

\* C11: within one tick the new state of each projectile is a function of
\* its own state and config and of the shared environment only: the tick
\* keeps the list, its order, the ids and the configs; a projectile that is
\* not flying is left unchanged whatever the others do; a flying one gets
\* its own tentative time and position or keeps its own; and two projectiles
\* with equal config and state get equal states.
C11_TickIndependent ==
    [][TickStep =>
          /\ Len(projectiles') = Len(projectiles)
          /\ \A i \in Idx :
                LET p == projectiles[i]
                    q == projectiles'[i]
                IN  /\ q.id = p.id
                    /\ q.config = p.config
                    /\ ~Ticked(p) => q.state = p.state
                    /\ Ticked(p)
                          => /\ q.state.t \in {p.state.t, TickT(p)}
                             /\ q.state.position \in {p.state.position, TickP(p)}
                             /\ q.state.isFinished \/ q.state.t = TickT(p)
                             /\ q.state.startPosition = p.state.startPosition
                    /\ \A j \in Idx :
                          (projectiles[j].config = p.config
                              /\ projectiles[j].state = p.state)
                              => projectiles'[j].state = q.state]_vars

\* two projectiles a tick has moved to different times, next to each other
C11_Witness ==
    \E i, j \in Idx :
        /\ projectiles[i].state.t = 300
        /\ projectiles[j].state.t = 600
        /\ projectiles[i].state.position # projectiles[i].state.startPosition
        /\ projectiles[j].state.position # projectiles[j].state.startPosition

---------------------------------------------------------------------------
(* C12 *)

\* the step is an edit of the incline angle
AngleEditStep == \E a \in Angles : setEnv("angleIncline", a)

\* the launch velocity of config at incline angle a, written out
LaunchVel(config, a) ==
    [x |-> config.v0 * Cos(a + config.angleLaunch) * (VelScale \div TrigScale),
     y |-> config.v0 * Sin(a + config.angleLaunch) * (VelScale \div TrigScale)]

\* C12 as claimed: an edit of the incline angle while a projectile is flying
\* changes neither the position of its next tick nor whether that tick is a
\* hit of the incline.
C12_AngleFrozenInFlight ==
    [][\A i \in Idx :
          LET p == projectiles[i]
              q == projectiles'[i]
              before == Tentative(p, env).position
              after == Tentative(q, env').position
          IN  (Ticked(p) /\ AngleEditStep)
                  => /\ after = before
                     /\ checkCollision(after, env'.angleIncline)
                            <=> checkCollision(before, env.angleIncline)]_vars

\* C12 amended: an edit of the incline angle leaves the stored state of a
\* flying projectile unchanged, its start position in particular; each tick
\* takes the launch direction and the landing surface from the incline angle
\* of the environment at that tick, and the start position from the state.
C12_AngleLiveInFlight ==
    [][\A i \in Idx :
          LET p == projectiles[i]
              q == projectiles'[i]
              P == calculatePhysics(TickT(p), env, p.state.startPosition,
                                    LaunchVel(p.config, env.angleIncline)).position
              hit == checkCollision(P, env.angleIncline)
          IN  /\ (Ticked(p) /\ AngleEditStep) => q.state = p.state
              /\ (Ticked(p) /\ TickStep)
                    => /\ q.state.startPosition = p.state.startPosition
                       /\ q.state.isPlaying => q.state.position = P
                       /\ q.state.isPlaying => ~(hit /\ 10 * TickT(p) > TicksPerSec)
                       /\ (hit /\ 10 * TickT(p) > TicksPerSec)
                             => /\ q.state.isFinished
                                /\ q.state.position = P]_vars

\* a projectile launched from the top at one incline angle and ticked at
\* another: it flies from the old top in the direction of the new angle
C12_Witness ==
    \E i \in Idx :
        \E a \in Angles :
            LET p == projectiles[i]
            IN  /\ p.state.isPlaying
                /\ p.state.t > 0
                /\ a # env.angleIncline
                /\ p.state.startPosition = StartOf("top", a)
                /\ p.state.startPosition # StartOf("top", env.angleIncline)
                /\ p.state.position =
                       calculatePhysics(p.state.t, env, p.state.startPosition,
                           LaunchVel(p.config, env.angleIncline)).position
                /\ p.state.position #
                       calculatePhysics(p.state.t, env, p.state.startPosition,
                           LaunchVel(p.config, a)).position

---------------------------------------------------------------------------
(* C13 *)

\* C13: the position a tick commits is the point at the tentative time on
\* the parabola from the stored start position, with the launch velocity of
\* the current config and incline angle and with the current gravity: in
\* model units x = x0 + 2 vx T and y = y0 + 2 vy T - g T^2; the velocity a
\* tick that keeps the projectile flying commits is (vx, vy - g T); the
\* stored start position is not re-resolved.
C13_TickFromStoredStart ==
    [][\A i \in Idx :
          LET p == projectiles[i]
              q == projectiles'[i]
              T == p.state.t + env.timeScale
              v == LaunchVel(p.config, env.angleIncline)
              x0 == p.state.startPosition.x
              y0 == p.state.startPosition.y
          IN  (Ticked(p) /\ TickStep /\ q.state.t = T)
                  => /\ q.state.position.x = x0 + 2 * v.x * T
                     /\ q.state.position.y = y0 + 2 * v.y * T - env.gravity * T * T
                     /\ q.state.startPosition = p.state.startPosition
                     /\ q.state.isPlaying
                           => q.state.velocity =
                                  [x |-> v.x, y |-> v.y - env.gravity * T]]_vars

\* a flight sampled at 5/60 s under gravity 9.81 and ticked to 6/60 s after
\* gravity was edited to 20: the sixth position lies on the parabola of 20
C13_Witness ==
    \E i \in Idx :
        LET p == projectiles[i]
            v == LaunchVel(p.config, env.angleIncline)
        IN  /\ p.state.isPlaying
            /\ p.state.t = 6
            /\ env.gravity = 2000
            /\ Len(p.state.path) = 2
            /\ p.state.path[2].y = p.state.startPosition.y + 2 * v.y * 5 - 981 * 25
            /\ p.state.position.y =
                   p.state.startPosition.y + 2 * v.y * 6 - 2000 * 36

---------------------------------------------------------------------------
(* C14 *)

\* the stored position is the closed-form position at the stored time
OnTrajectory(p, e) ==
    p.state.position =
        calculatePhysics(p.state.t, e, p.state.startPosition,
                         getInitialState(p.config, e).vel).position

\* C14: every reset or relaunch of a projectile (the reset by the
\* environment effect included) leaves its position equal to
\* calculatePhysics(t, env, startPosition, getInitialState(config, env).vel)
\* for its stored t, and every step that edits neither its config nor the
\* incline angle or gravity keeps that equality: ticks, pauses, resumes and
\* time-scale edits.
C14_PositionOnTrajectory ==
    [][\A i \in Idx :
          LET p == projectiles[i]
              q == projectiles'[i]
          IN  /\ ResetStep(p) => OnTrajectory(q, env')
              /\ (OnTrajectory(p, env) /\ ~EnvEditStep /\ ~UpdateStep(p.id))
                    => OnTrajectory(q, env')]_vars

---------------------------------------------------------------------------
(* C15 *)

\* C15: launchProjectile on a Playing projectile only sets isPlaying to
\* false: t, position, startPosition, velocity, path and isFinished are
\* kept; a tick leaves a paused projectile unchanged; launchProjectile on
\* the paused projectile sets isPlaying and keeps t and the other fields,
\* and the tick after it commits the paused t plus (1/60) * timeScale.
C15_PauseFrame ==
    [][\A i \in Idx :
          LET p == projectiles[i]
              q == projectiles'[i]
              paused == ~p.state.isPlaying /\ ~p.state.isFinished
          IN  /\ (Ticked(p) /\ launchProjectile(p.id))
                    => /\ ~q.state.isPlaying
                       /\ ~q.state.isFinished
                       /\ q.state.t = p.state.t
                       /\ q.state.position = p.state.position
                       /\ q.state.startPosition = p.state.startPosition
                       /\ q.state.velocity = p.state.velocity
                       /\ q.state.path = p.state.path
              /\ (paused /\ TickStep) => q = p
              /\ (paused /\ launchProjectile(p.id))
                    => /\ q.state.isPlaying
                       /\ ~q.state.isFinished
                       /\ q.state.t = p.state.t
                       /\ q.state.position = p.state.position
                       /\ q.state.startPosition = p.state.startPosition
                       /\ q.state.velocity = p.state.velocity
                       /\ q.state.path = p.state.path
              /\ (Ticked(p) /\ TickStep /\ q.state.isPlaying)
                    => q.state.t = p.state.t + env.timeScale]_vars

\* a projectile paused in flight, away from its start, with its velocity
C15_Witness ==
    \E i \in Idx :
        LET p == projectiles[i]
        IN  /\ ~p.state.isPlaying
            /\ ~p.state.isFinished
            /\ p.state.t = 6
            /\ p.state.position # p.state.startPosition
            /\ p.state.velocity # ZeroVec
            /\ Len(p.state.path) = 2
            /\ OnTrajectory(p, env)

---------------------------------------------------------------------------
(* C16 *)

\* the closed form holds for calculatePhysics at time t under environment e
\* from p0 with v0
ClosedForm(t, e, p0, v0) ==
    LET r == calculatePhysics(t, e, p0, v0)
        zero == calculatePhysics(0, e, p0, v0)
        twice == calculatePhysics(2 * t, e, p0, v0)
        onward == calculatePhysics(t, e, r.position, r.velocity)
    IN  \* x = p0.x + v0.x t and y = p0.y + v0.y t - g t^2 / 2, in model units
        /\ r.position.x = p0.x + 2 * v0.x * t
        /\ r.position.y = p0.y + 2 * v0.y * t - e.gravity * t * t
        /\ r.velocity.x = v0.x
        /\ r.velocity.y = v0.y - e.gravity * t
        /\ zero.position = p0 /\ zero.velocity = v0
        \* x is linear in t and y has the constant second difference -g t^2
        /\ twice.position.x - r.position.x = r.position.x - p0.x
        /\ (twice.position.y - r.position.y) - (r.position.y - p0.y)
               = 0 - 2 * e.gravity * t * t
        \* a flight continued from its state at t is at 2 t where the flight
        \* from the start is
        /\ onward = twice
        \* nothing of the environment but gravity enters
        /\ \A a \in Angles, s \in TimeScales :
              calculatePhysics(t, [e EXCEPT !.angleIncline = a,
                                            !.timeScale = s], p0, v0) = r

\* C16: for every time t >= 0, gravity, start p0 and velocity v0,
\* calculatePhysics returns position (p0.x + v0.x t, p0.y + v0.y t
\* - 0.5 g t^2) and velocity (v0.x, v0.y - g t): no horizontal
\* acceleration, constant vertical acceleration -g, and a result that
\* depends on the arguments only.  The arguments are drawn from the states
\* of the program: the stored start with the launch velocity, and the
\* stored position with the stored velocity.
C16_ClosedForm ==
    \A i \in Idx :
        \A t \in PhysTimes :
            LET p == projectiles[i]
            IN  /\ ClosedForm(t, env, p.state.startPosition,
                              getInitialState(p.config, env).vel)
                /\ ClosedForm(t, env, p.state.position, p.state.velocity)

\* a flight 6/60 s after its launch from the top, under gravity 20: the
\* position the function gives lies below the straight line of the launch
\* velocity by g t^2 / 2
C16_Witness ==
    \E i \in Idx :
        LET p == projectiles[i]
            v == getInitialState(p.config, env).vel
            r == calculatePhysics(6, env, p.state.startPosition, v)
        IN  /\ p.state.isPlaying
            /\ p.state.t = 6
            /\ p.config.startPos = "top"
            /\ env.gravity = 2000
            /\ p.state.position = r.position
            /\ r.position.y = p.state.startPosition.y + 2 * v.y * 6 - 72000
            /\ r.position.x > p.state.startPosition.x

---------------------------------------------------------------------------
(* C17 *)

\* the point (x, y) given in mm
PointMm(x, y) == [x |-> x * (PosScale \div 1000), y |-> y * (PosScale \div 1000)]

\* the point at distance s along the incline of angle a and d off it, s and
\* d in units of 25 mm: s (cos a, sin a) + d (-sin a, cos a)
InclinePoint(s, d, a) ==
    [x |-> (s * Cos(a) - d * Sin(a)) * ((25 * PosScale) \div (1000 * TrigScale)),
     y |-> (s * Sin(a) + d * Cos(a)) * ((25 * PosScale) \div (1000 * TrigScale))]

\* C17: checkCollision is true exactly when the signed perpendicular
\* distance is at most 0.05 m and the distance along the incline lies in
\* [-5, 120] m.  On the flat incline (angle 0) every point (x, 0) and
\* (x, 0.05) with x in [-5, 120] is a hit, no point beyond these ends is,
\* and no point (x, 0.051) or (x, 1) is; every stored position is judged by
\* its own y and x there.  At the incline angle of the environment the
\* points laid out along and off the incline are hits exactly when they are
\* at most 50 mm off it and between -5 m and 120 m along it.
C17_CollisionRegion ==
    /\ \A x \in FlatXs :
          LET on == (0 - 5000 <= x /\ x <= 120000)
          IN  /\ checkCollision(PointMm(x, 0), 0) <=> on
              /\ checkCollision(PointMm(x, 50), 0) <=> on
              /\ checkCollision(PointMm(x, 0 - 1000), 0) <=> on
              /\ ~checkCollision(PointMm(x, 51), 0)
              /\ ~checkCollision(PointMm(x, 1000), 0)
    /\ \A i \in Idx :
          LET pos == projectiles[i].state.position
          IN  checkCollision(pos, 0)
                  <=> /\ pos.y <= PosScale \div 20
                      /\ pos.x >= (0 - 5) * PosScale
                      /\ pos.x <= (INCLINE_LENGTH + 20) * PosScale
    /\ \A s \in SampleParas, d \in SamplePerps :
          checkCollision(InclinePoint(s, d, env.angleIncline), env.angleIncline)
              <=> (d <= 2 /\ 0 - 200 <= s /\ s <= 4800)

\* a projectile landed on the flat incline: its position is a hit, the last
\* sampled point of its flight is not
C17_Witness ==
    \E i \in Idx :
        LET p == projectiles[i]
        IN  /\ env.angleIncline = 0
            /\ p.state.isFinished
            /\ p.state.velocity = ZeroVec
            /\ Len(p.state.path) >= 2
            /\ checkCollision(p.state.position, 0)
            /\ p.state.position.y < 0
            /\ ~checkCollision(p.state.path[Len(p.state.path)], 0)

---------------------------------------------------------------------------
(* C18 *)

\* the number of samples from 0 s to 10 s, 0.1 s apart
HorizonSamples == 10 * (TicksPerSec \div predictDt) + 1

\* the last point pushed
LastPoint == prediction.points[Len(prediction.points)]

\* the last point pushed is a hit of the incline or has y < -10
LastIsStop ==
    \/ checkCollision(LastPoint, env.angleIncline)
    \/ LastPoint.y < (0 - 10) * PosScale

\* C18 as claimed: predictTrajectory returns a non-empty sequence sampled
\* within the horizon of 10 s whose final point is a hit of the incline or
\* has y < -10.
C18_EndsAtStop ==
    prediction.done
        => /\ Len(prediction.points) >= 1
           /\ Len(prediction.points) <= HorizonSamples
           /\ LastIsStop

\* every sample pushed so far was taken at a time up to 10 s
WithinHorizon ==
    /\ Len(prediction.points) <= HorizonSamples
    /\ prediction.t <= predictMaxTime + predictDt

\* predictTrajectory has returned its points, ended by a stop condition or
\* by the horizon
ReturnedAtStopOrHorizon ==
    /\ prediction.done
    /\ Len(prediction.points) >= 1
    /\ Len(prediction.points) < HorizonSamples => LastIsStop
    /\ (/\ env = [angleIncline |-> 30, gravity |-> 981, timeScale |-> 1]
        /\ projectiles = <<createProjectile(1, EmptyUpdate, env)>>)
          => /\ Len(prediction.points) < HorizonSamples
             /\ checkCollision(LastPoint, env.angleIncline)

\* C18 amended: predictTrajectory terminates, with a non-empty sequence of at
\* most 101 samples taken at times up to 10 s; when it returns fewer than
\* 101 samples the final point is a hit of the incline or has y < -10; for
\* the config and environment the program starts with it returns before the
\* horizon, on the incline.
C18_EndsAtStopOrHorizon == []WithinHorizon /\ <>[]ReturnedAtStopOrHorizon

\* a prediction cut off at the horizon: 101 samples, the last one neither a
\* hit nor below y = -10
C18_Witness ==
    /\ prediction.done
    /\ Len(prediction.points) = HorizonSamples
    /\ ~LastIsStop

---------------------------------------------------------------------------
(* C19 *)

\* a stop condition holds of the point sampled k-th, at time (k - 1) * 0.1 s:
\* a hit of the incline past the grace of 0.1 s, or y < -10
StopsAt(pos, k) ==
    \/ (checkCollision(pos, env.angleIncline)
           /\ 10 * ((k - 1) * predictDt) > TicksPerSec)
    \/ pos.y < (0 - 10) * PosScale

\* C19: the points of predictTrajectory are the positions of
\* calculatePhysics at t = 0, 0.1, 0.2, ... from the initial state of the
\* config, the first one the start position; no point but the last
\* satisfies a stop condition, and a sequence returned before the horizon
\* ends with a point that does; a hit at t <= 0.1 stops nothing, so only
\* y < -10 can end a sequence of one or two points.
C19_SamplesUntilFirstStop ==
    \A i \in Idx :
        projectiles[i].id = activeId =>
            LET pts == prediction.points
                n == Len(pts)
                config == projectiles[i].config
                init == getInitialState(config, env)
            IN  /\ \A k \in 1..n :
                      pts[k] = calculatePhysics((k - 1) * predictDt, env,
                                                init.pos, init.vel).position
                /\ n >= 1 => pts[1] = StartOf(config.startPos, env.angleIncline)
                /\ \A k \in 1..(n - 1) : ~StopsAt(pts[k], k)
                /\ (~prediction.done /\ n >= 1) => ~StopsAt(pts[n], n)
                /\ prediction.done
                      => /\ n >= 1
                         /\ n < HorizonSamples => StopsAt(pts[n], n)
                         /\ n <= 2 => pts[n].y < (0 - 10) * PosScale

\* a returned prediction whose samples at 0 s and 0.1 s are hits of the
\* incline that did not stop it, and whose sample at 0.2 s did
C19_Witness ==
    /\ prediction.done
    /\ Len(prediction.points) = 3
    /\ checkCollision(prediction.points[1], env.angleIncline)
    /\ checkCollision(prediction.points[2], env.angleIncline)
    /\ prediction.points[2] # prediction.points[1]
    /\ StopsAt(LastPoint, Len(prediction.points))

---------------------------------------------------------------------------
(* C20 *)

\* C20: getInitialState gives position (0, 0) for a bottom start and
\* (100 cos theta, 100 sin theta), the top end of the incline, for a top
\* start, and velocity (v0 cos(theta + beta), v0 sin(theta + beta)): the
\* launch angle is measured from the incline.  The position does not depend
\* on v0 or beta, the velocity does not depend on the start and depends on
\* the two angles through their sum only; at incline 30 the top is at
\* (86.6, 50) m, and the launch at 25 m/s, 45 above the incline of 30, has
\* velocity (6.475, 24.15) m/s.
C20_InitialState ==
    \A i \in Idx :
        LET config == projectiles[i].config
            theta == env.angleIncline
            init == getInitialState(config, env)
        IN  /\ config.startPos = "bottom" => init.pos = [x |-> 0, y |-> 0]
            /\ config.startPos = "top"
                  => /\ init.pos.x = (INCLINE_LENGTH * Cos(theta))
                                          * (PosScale \div TrigScale)
                     /\ init.pos.y = (INCLINE_LENGTH * Sin(theta))
                                          * (PosScale \div TrigScale)
                     /\ init.pos.x >= 0 /\ init.pos.y >= 0
                     /\ theta = 0
                           => init.pos = [x |-> INCLINE_LENGTH * PosScale, y |-> 0]
                     /\ theta = 30
                           => /\ 10 * init.pos.x = 866 * PosScale
                              /\ init.pos.y = 50 * PosScale
            /\ init.vel.x * TrigScale
                   = config.v0 * Cos(theta + config.angleLaunch) * VelScale
            /\ init.vel.y * TrigScale
                   = config.v0 * Sin(theta + config.angleLaunch) * VelScale
            /\ (theta = 30 /\ config.v0 = 25 /\ config.angleLaunch = 45)
                  => init.vel = [x |-> 6475 * (VelScale \div 1000),
                                 y |-> 2415 * (VelScale \div 100)]
            /\ \A v \in PredictV0s, b \in PredictLaunchAngles :
                  getInitialState([config EXCEPT !.v0 = v, !.angleLaunch = b],
                                  env).pos = init.pos
            /\ \A s \in StartPositions :
                  getInitialState([config EXCEPT !.startPos = s], env).vel
                      = init.vel
            /\ \A a \in PredictAngles, b \in PredictLaunchAngles :
                  a + b = theta + config.angleLaunch
                      => getInitialState([config EXCEPT !.angleLaunch = b],
                                         [env EXCEPT !.angleIncline = a]).vel
                             = init.vel

\* the projectile created at the top of the incline of 30 with the launch
\* of 25 m/s at 45: its stored start and velocity are the resolved ones,
\* and its prediction starts from that start
C20_Witness ==
    \E i \in Idx :
        LET p == projectiles[i]
        IN  /\ env.angleIncline = 30
            /\ p.config = [v0 |-> 25, angleLaunch |-> 45, startPos |-> "top"]
            /\ p.state.startPosition = getInitialState(p.config, env).pos
            /\ p.state.velocity = getInitialState(p.config, env).vel
            /\ p.state.startPosition.y = 50 * PosScale
            /\ p.state.velocity.y = 144900
            /\ Len(prediction.points) >= 2
            /\ prediction.points[1] = p.state.startPosition

---------------------------------------------------------------------------
(* C21 *)

Abs(n) == IF n < 0 THEN 0 - n ELSE n

\* the velocity of p in 1/10 m/s and its displacement from the start in m,
\* the vectors the panels decompose, rounded down to these units
VelocityOf(p) ==
    [x |-> p.state.velocity.x \div (VelScale \div 10),
     y |-> p.state.velocity.y \div (VelScale \div 10)]

DisplacementOf(p) ==
    [x |-> (p.state.position.x - p.state.startPosition.x) \div PosScale,
     y |-> (p.state.position.y - p.state.startPosition.y) \div PosScale]

\* the decomposition of vec at incline angle a adds up to vec and has its
\* components along (cos, sin) and (-sin, cos)
Decomposes(vec, a) ==
    LET r == projectToIncline(vec, a)
        c == Cos(a)
        s == Sin(a)
        sumX == r.parallel.x + r.perpendicular.x
        sumY == r.parallel.y + r.perpendicular.y
        one == TrigScale * TrigScale
    IN  \* the sum is vec times cos^2 + sin^2, which the trigonometric table
        \* has within 1/1000 of 1, and at angle 0 exactly 1
        /\ sumX = vec.x * (c * c + s * s)
        /\ sumY = vec.y * (c * c + s * s)
        /\ Abs(sumX - vec.x * one) <= Abs(vec.x) * (one \div 1000)
        /\ Abs(sumY - vec.y * one) <= Abs(vec.y) * (one \div 1000)
        /\ a = 0 => /\ sumX = vec.x * one /\ sumY = vec.y * one
                    /\ r.parallel.y = 0 /\ r.perpendicular.x = 0
        \* each component is its signed magnitude times the unit vector
        /\ r.parallel.mag = vec.x * c + vec.y * s
        /\ r.perpendicular.mag = vec.y * c - vec.x * s
        /\ r.parallel.x = r.parallel.mag * c
        /\ r.parallel.y = r.parallel.mag * s
        /\ r.perpendicular.x = 0 - r.perpendicular.mag * s
        /\ r.perpendicular.y = r.perpendicular.mag * c

\* C21: for every vector V and incline angle in [0, 80], the parallel and
\* perpendicular components of projectToIncline(V, angle) add up to V, and
\* each is its signed magnitude times (cos, sin), respectively (-sin, cos).
\* V ranges over the velocity and the displacement of every projectile of
\* every reachable state, the angle over the current incline angle and
\* ProjectAngles.
C21_ProjectionRoundTrip ==
    \A i \in Idx :
        \A a \in ProjectAngles \cup {env.angleIncline} :
            /\ Decomposes(VelocityOf(projectiles[i]), a)
            /\ Decomposes(DisplacementOf(projectiles[i]), a)

\* a projectile in flight on the incline of 30, moving up along the incline
\* and falling towards it: both components of its velocity are there, of
\* opposite signs
C21_Witness ==
    \E i \in Idx :
        LET p == projectiles[i]
            r == projectToIncline(VelocityOf(p), env.angleIncline)
        IN  /\ p.state.isPlaying
            /\ p.state.t > 0
            /\ env.angleIncline = 30
            /\ r.parallel.mag > 0
            /\ r.perpendicular.mag < 0
            /\ r.parallel.y > 0
            /\ r.perpendicular.x > 0
            /\ DisplacementOf(p) # ZeroVec

---------------------------------------------------------------------------
(* C22 *)

\* { ...config, ...u }, field by field
Merged(config, u) ==
    [v0 |-> IF "v0" \in DOMAIN u THEN u.v0 ELSE config.v0,
     angleLaunch |-> IF "angleLaunch" \in DOMAIN u THEN u.angleLaunch
                     ELSE config.angleLaunch,
     startPos |-> IF "startPos" \in DOMAIN u THEN u.startPos
                  ELSE config.startPos]

\* C22: updateProjectileConfig(id, updates), in any flight state of
\* projectile id, replaces its config by the merged config and resets its
\* state to t = 0, not playing, not finished, position = startPosition =
\* resolver position, velocity = resolver velocity, path = [start]; the
\* list keeps its length and order and every other projectile is unchanged.
C22_ConfigEditResets ==
    [][\A id \in Ids :
          \A u \in Updates :
              updateProjectileConfig(id, u)
                  => /\ Len(projectiles') = Len(projectiles)
                     /\ \A i \in Idx :
                           LET p == projectiles[i]
                               q == projectiles'[i]
                               init == getInitialState(Merged(p.config, u), env)
                           IN  IF p.id = id
                               THEN /\ q.id = id
                                    /\ q.config = Merged(p.config, u)
                                    /\ q.state.t = 0
                                    /\ ~q.state.isPlaying
                                    /\ ~q.state.isFinished
                                    /\ q.state.position = init.pos
                                    /\ q.state.startPosition = init.pos
                                    /\ q.state.velocity = init.vel
                                    /\ q.state.path = <<init.pos>>
                               ELSE q = p]_vars

\* the active projectile moved to the top and reset, next to a Finished
\* one that started from the bottom
C22_Witness ==
    \E i, j \in Idx :
        LET p == projectiles[i]
            o == projectiles[j]
        IN  /\ p.id = activeId
            /\ p.config.startPos = "top"
            /\ p.state = FreshState(p.config, env, FALSE)
            /\ o.id # p.id
            /\ o.config.startPos = "bottom"
            /\ o.state.isFinished
            /\ o.state.t > 0

---------------------------------------------------------------------------
(* C23 *)

\* the projectile is Playing, resp. Finished
InFlight == \E i \in Idx : Flight(projectiles[i]) = "Playing"
FlightOver == \A i \in Idx : Flight(projectiles[i]) = "Finished"

\* no flying projectile is held by the cap on elapsed time
BelowCap ==
    \A i \in Idx :
        projectiles[i].state.isPlaying => projectiles[i].state.t < FlightMaxT

\* C23: with gravity > 0 and timeScale > 0 a Playing projectile that keeps
\* being ticked and is not paused, edited or relaunched eventually becomes
\* Finished, by landing or by the out-of-bounds exit, and stays Finished; no
\* flight continues forever (nor up to the cap on elapsed time).
C23_FlightEnds == (InFlight ~> FlightOver) /\ <>[]FlightOver /\ []BelowCap

\* a flight that ended by the out-of-bounds exit after more than 10 s
C23_Witness ==
    \E i \in Idx :
        LET p == projectiles[i]
        IN  /\ p.state.isFinished
            /\ p.state.velocity # ZeroVec
            /\ p.state.t > 10 * TicksPerSec
            /\ env.timeScale = 1

---------------------------------------------------------------------------
(* C24 *)

\* C24: in every reachable state the path of every projectile is non-empty
\* and its first element is the startPosition of the projectile.
C24_PathStartsAtStart ==
    \A i \in Idx :
        /\ Len(projectiles[i].state.path) >= 1
        /\ projectiles[i].state.path[1] = projectiles[i].state.startPosition

\* a flight from the top whose path has grown by a sample, under an incline
\* angle edited since its launch: path and start still agree, on the old top
C24_Witness ==
    \E i \in Idx :
        LET p == projectiles[i]
        IN  /\ p.state.isPlaying
            /\ p.config.startPos = "top"
            /\ Len(p.state.path) = 2
            /\ p.state.path[2] # p.state.path[1]
            /\ p.state.path[1] = p.state.startPosition
            /\ p.state.startPosition # getInitialState(p.config, env).pos

---------------------------------------------------------------------------
(* C25 *)

\* C25: every operation that resets a projectile to its start position and
\* its path to [start] (updateProjectileConfig, the incline-angle or gravity
\* edit on a projectile that is not playing, relaunch, launchAll, resetAll)
\* also sets t to 0 and clears isFinished.
C25_ResetClearsTimeAndFlag ==
    [][\A i \in Idx :
          LET p == projectiles[i]
              q == projectiles'[i]
          IN  ResetStep(p)
                  => /\ q.state.position = q.state.startPosition
                     /\ q.state.path = <<q.state.startPosition>>
                     /\ q.state.t = 0
                     /\ ~q.state.isFinished]_vars

---------------------------------------------------------------------------
(* C26 *)

\* C26: after any sequence of addProjectile and removeProjectile the list is
\* non-empty, the ids of its projectiles are pairwise distinct, and activeId
\* is the id of a projectile of the list.
C26_ActiveInList ==
    /\ Len(projectiles) >= 1
    /\ \A i, j \in Idx : projectiles[i].id = projectiles[j].id => i = j
    /\ activeId \in Ids

====
